---- MODULE Spec2Model ----
(***************************************************************************)
(* Model of the object-injection size-map scripts:                         *)
(*   main.js          the launcher (startScript, executeScript)            *)
(*   autoInsert.js    first-plus-extensions variant (src/unnamed/part_000) *)
(*   notAutoInsert.js list-of-breakpoints variant                          *)
(*   sizeMapRef.js    reference variant: always three entries              *)
(*                                                                         *)
(* A JavaScript string is a sequence of one-character strings.  An array   *)
(* or null is the record [isNull, items].  NaN is the number -1: no        *)
(* character of the alphabets below is a sign, so parseInt never yields a  *)
(* negative number here.                                                   *)
(***************************************************************************)
EXTENDS Integers, Sequences, FiniteSets, TLC

VARIABLES
    \* SpecParse: the validator and the parser as functions of one line
    line,          \* the line handed to the validator and the parser
    pphase,        \* "off", "input", "validated", "parsed"
    accepted,      \* whether getValidInput returns the line
    sizes,         \* what parseSizes returns for the line
    \* SpecAsm: the three assemblers as functions of three category results
    desktopSizes, tabletSizes, mobileSizes,
    called,        \* "off", "args", or the assembler that was applied
    assembled,     \* what the assembler returned
    \* SpecRun: one run of a variant script
    script,        \* the script that runs
    pc,            \* "off", "start", "asking", "done"
    prompt,        \* the category whose prompt is pending: 1, 2, 3
    lastInput,     \* getValidInput's local input: the line read last
    inputs,        \* desktopInput, tabletInput, mobileInput, as far as assigned
    rlOpen,        \* the script's readline interface is open
    stdio,         \* the run's events, in order: console output, lines read, rl.close
    rejects,       \* the lines rejected so far
    jsonOutput,    \* the value handed to JSON.stringify
    \* SpecMain: the launcher
    mpc,           \* "off", "start", "question", "spawned", "exited"
    mainRl,        \* the launcher's readline interface is open
    choiceLine,    \* the line read last by the launcher
    mainLog,       \* the launcher's events, in order
    invalids,      \* the unrecognized choices so far
    child,         \* the spawned child: its script and its state
    exitCode       \* the code the launcher exited with

parseVars == <<line, pphase, accepted, sizes>>
asmVars == <<desktopSizes, tabletSizes, mobileSizes, called, assembled>>
runVars == <<script, pc, prompt, lastInput, inputs, rlOpen, stdio, rejects, jsonOutput>>
mainVars == <<mpc, mainRl, choiceLine, mainLog, invalids, child, exitCode>>
vars == <<parseVars, asmVars, runVars, mainVars>>

---------------------------------------------------------------------------
(* Bounds *)

MaxLen == 7         \* the longest line given to the validator and the parser
MaxSizes == 2       \* the longest sequence of pairs given to an assembler
MaxRejects == 2     \* the rejected lines of one run
MaxChoiceLen == 2   \* the longest line given to the launcher
MaxInvalid == 2     \* the unrecognized choices of one launcher run
MaxCode == 2        \* the largest exit code of a child

---------------------------------------------------------------------------
(* Strings *)

Digits == {"1", "2"}
Whitespace == {" "}
Alphabet == Digits \cup Whitespace \cup {"x", ","}

NaN == -1

Str_null == <<"n", "u", "l", "l">>
Str_undefined == <<"u", "n", "d", "e", "f", "i", "n", "e", "d">>

DigitVal(c) == IF c = "1" THEN 1 ELSE IF c = "2" THEN 2 ELSE 0

LowerChar(c) ==
    CASE c = "N" -> "n"
      [] c = "U" -> "u"
      [] c = "L" -> "l"
      [] c = "A" -> "a"
      [] c = "E" -> "e"
      [] c = "X" -> "x"
      [] OTHER -> c

UpperChar(c) ==
    CASE c = "n" -> "N"
      [] c = "u" -> "U"
      [] c = "l" -> "L"
      [] c = "a" -> "A"
      [] c = "e" -> "E"
      [] c = "x" -> "X"
      [] OTHER -> c

toLowerCase(s) == [i \in 1..Len(s) |-> LowerChar(s[i])]

toUpperCase(s) == [i \in 1..Len(s) |-> UpperChar(s[i])]

RECURSIVE trimStart(_)
trimStart(s) ==
    IF s # <<>> /\ Head(s) \in Whitespace THEN trimStart(Tail(s)) ELSE s

RECURSIVE trimEnd(_)
trimEnd(s) ==
    IF s # <<>> /\ s[Len(s)] \in Whitespace
    THEN trimEnd(SubSeq(s, 1, Len(s) - 1))
    ELSE s

trim(s) == trimEnd(trimStart(s))

\* String.prototype.split with a one-character separator: never empty,
\* "".split(c) is [""].
RECURSIVE split(_, _)
split(s, c) ==
    IF \A i \in 1..Len(s) : s[i] # c
    THEN <<s>>
    ELSE LET i == CHOOSE k \in 1..Len(s) :
                      s[k] = c /\ \A j \in 1..(k - 1) : s[j] # c
         IN <<SubSeq(s, 1, i - 1)>> \o split(SubSeq(s, i + 1, Len(s)), c)

\* The value of the longest prefix of decimal digits, acc being the value of
\* the digits already read and seen whether there is one.
RECURSIVE digitsPrefix(_, _, _)
digitsPrefix(s, acc, seen) ==
    IF s # <<>> /\ Head(s) \in Digits
    THEN digitsPrefix(Tail(s), 10 * acc + DigitVal(Head(s)), TRUE)
    ELSE IF seen THEN acc ELSE NaN

\* parseInt(s, 10): leading whitespace is skipped, the digits that follow are
\* read, whatever comes after them is ignored; NaN when there is no digit.
parseInt(s) == digitsPrefix(trimStart(s), 0, FALSE)

\* /^\d+x\d+$/.test(s)
regexTest(s) ==
    \E k \in 2..(Len(s) - 1) :
        /\ s[k] = "x"
        /\ \A j \in 1..Len(s) : j # k => s[j] \in Digits

---------------------------------------------------------------------------
(* Arrays and null *)

Null == [isNull |-> TRUE, items |-> <<>>]
Arr(s) == [isNull |-> FALSE, items |-> s]

---------------------------------------------------------------------------
(* The validator and the parser, the same in the three variants *)

isValidFormat(input) ==
    input = <<>> \/ input = Str_null \/ regexTest(input)

\* The condition of getValidInput's if and of its do-while.
someInvalid(input) ==
    /\ input # <<>>
    /\ toLowerCase(input) # Str_null
    /\ LET tokens == split(input, ",")
       IN \E i \in 1..Len(tokens) : ~isValidFormat(trim(tokens[i]))

\* parsePair with width and height exchanged.
parsePairSwapped(size) ==
    LET parts == split(size, "x")
        width == parts[1]
        height == IF Len(parts) >= 2 THEN parts[2] ELSE Str_undefined
    IN <<parseInt(height), parseInt(width)>>

parsePair(size) ==
    LET parts == split(size, "x")
        width == parts[1]
        height == IF Len(parts) >= 2 THEN parts[2] ELSE Str_undefined
    IN <<parseInt(width), parseInt(height)>>

parseSizes(inputSizes) ==
    IF toLowerCase(inputSizes) = Str_null THEN Null
    ELSE IF inputSizes = <<>> THEN Arr(<<>>)
    ELSE LET tokens == split(inputSizes, ",")
         IN Arr([i \in 1..Len(tokens) |-> parsePair(tokens[i])])

---------------------------------------------------------------------------
(* The assemblers *)

\* createSizeMap with the explicit null left out like an empty sequence.
createSizeMapDropNull(d, t, m) ==
    LET entry(threshold, s) ==
            IF s # Null /\ Len(s.items) > 0 THEN <<<<<<threshold>>, s>>>> ELSE <<>>
    IN [sizeMap |-> entry(992, d) \o entry(768, t) \o entry(0, m)]

\* createSizeMap of notAutoInsert.js: a category is left out when its
\* sequence is empty.
createSizeMap(d, t, m) ==
    LET entry(threshold, s) ==
            IF s = Null THEN <<<<<<threshold>>, Null>>>>
            ELSE IF Len(s.items) > 0 THEN <<<<<<threshold>>, s>>>>
            ELSE <<>>
    IN [sizeMap |-> entry(992, d) \o entry(768, t) \o entry(0, m)]

\* createSizeMap of sizeMapRef.js leaving out a category whose sequence is
\* empty, as notAutoInsert.js does.
createSizeMapRefOmitEmpty(d, t, m) ==
    LET entry(threshold, s) ==
            IF s = Null THEN <<<<<<threshold>>, Null>>>>
            ELSE IF Len(s.items) > 0 THEN <<<<<<threshold>>, s>>>>
            ELSE <<>>
    IN [sizeMap |-> entry(992, d) \o entry(768, t) \o entry(0, m)]

\* createSizeMap of sizeMapRef.js: always three entries.
createSizeMapRef(d, t, m) ==
    [sizeMap |-> << <<<<992>>, IF d # Null THEN d ELSE Null>>,
                    <<<<768>>, IF t # Null THEN t ELSE Null>>,
                    <<<<0>>, IF m # Null THEN m ELSE Null>> >>]

\* An object of the autoInsert script: keys are the properties that are set;
\* the field of a property that is not set holds a placeholder.
EmptyObject == [keys |-> {}, sizes |-> Null, envs |-> "", envExt |-> <<>>]

\* forEachStep without the test of result.sizes: every category that is not
\* skipped becomes the primary one.
forEachStepOverwrite(acc, s, envs) ==
    IF s = Null \/ Len(s.items) = 0 THEN acc
    ELSE [acc EXCEPT !.result.keys = @ \cup {"sizes", "envs"},
                     !.result.sizes = s,
                     !.result.envs = envs]

\* One call of the forEach callback of generateSizeMap (autoInsert script);
\* acc holds result and the local envExt.
forEachStep(acc, s, envs) ==
    IF s = Null \/ Len(s.items) = 0 THEN acc
    ELSE IF "sizes" \notin acc.result.keys
    THEN [acc EXCEPT !.result.keys = @ \cup {"sizes", "envs"},
                     !.result.sizes = s,
                     !.result.envs = envs]
    ELSE [acc EXCEPT !.envExt = Append(@, [sizes |-> s, envs |-> envs])]

RECURSIVE forEach(_, _, _, _)
forEach(acc, ins, devices, index) ==
    IF index > Len(ins) THEN acc
    ELSE forEach(forEachStep(acc, ins[index], devices[index]), ins, devices, index + 1)

\* generateSizeMap of the autoInsert script.
generateSizeMap(ins, devices) ==
    LET acc == forEach([result |-> EmptyObject, envExt |-> <<>>], ins, devices, 1)
    IN IF Len(acc.envExt) > 0
       THEN [acc.result EXCEPT !.keys = @ \cup {"envExt"}, !.envExt = acc.envExt]
       ELSE acc.result

Devices == <<"d", "t", "m">>

---------------------------------------------------------------------------
(* The variables a specification does not use *)

ParseOff ==
    /\ line = <<>>
    /\ pphase = "off"
    /\ accepted = FALSE
    /\ sizes = Null

AsmOff ==
    /\ desktopSizes = Null
    /\ tabletSizes = Null
    /\ mobileSizes = Null
    /\ called = "off"
    /\ assembled = EmptyObject

RunOff ==
    /\ script = ""
    /\ pc = "off"
    /\ prompt = 0
    /\ lastInput = <<>>
    /\ inputs = <<>>
    /\ rlOpen = FALSE
    /\ stdio = <<>>
    /\ rejects = 0
    /\ jsonOutput = EmptyObject

MainOff ==
    /\ mpc = "off"
    /\ mainRl = FALSE
    /\ choiceLine = <<>>
    /\ mainLog = <<>>
    /\ invalids = 0
    /\ child = [script |-> "", state |-> "none", code |-> 0]
    /\ exitCode = 0

---------------------------------------------------------------------------
(* SpecParse: the validator and the parser on every line of Lines *)

NullCasings == {s \in [1..4 -> {"n", "u", "l", "N", "U", "L"}] : toLowerCase(s) = Str_null}

Pads == {<<>>, <<" ">>}

Lines ==
    UNION {[1..n -> Alphabet] : n \in 0..MaxLen}
    \cup {p \o c \o q : p \in Pads, c \in NullCasings, q \in Pads}

InitParse ==
    /\ line \in Lines
    /\ pphase = "input"
    /\ accepted = FALSE
    /\ sizes = Null
    /\ AsmOff /\ RunOff /\ MainOff

\* getValidInput on line: it returns the line when its loop condition fails.
ValidateLine ==
    /\ pphase = "input"
    /\ accepted' = ~someInvalid(line)
    /\ pphase' = "validated"
    /\ UNCHANGED <<line, sizes, asmVars, runVars, mainVars>>

ParseLine ==
    /\ pphase = "validated"
    /\ sizes' = parseSizes(line)
    /\ pphase' = "parsed"
    /\ UNCHANGED <<line, accepted, asmVars, runVars, mainVars>>

NextParse == ValidateLine \/ ParseLine

SpecParse == InitParse /\ [][NextParse]_vars

---------------------------------------------------------------------------
(* SpecAsm: the assemblers on every three category results *)

Dims == {1, 2}

Pairs == Dims \X Dims

Results == {Null} \cup {Arr(s) : s \in UNION {[1..n -> Pairs] : n \in 0..MaxSizes}}

InitAsm ==
    /\ desktopSizes \in Results
    /\ tabletSizes \in Results
    /\ mobileSizes \in Results
    /\ called = "args"
    /\ assembled = EmptyObject
    /\ ParseOff /\ RunOff /\ MainOff

CallCreateSizeMap ==
    /\ called = "args"
    /\ assembled' = createSizeMap(desktopSizes, tabletSizes, mobileSizes)
    /\ called' = "createSizeMap"
    /\ UNCHANGED <<desktopSizes, tabletSizes, mobileSizes, parseVars, runVars, mainVars>>

CallCreateSizeMapRef ==
    /\ called = "args"
    /\ assembled' = createSizeMapRef(desktopSizes, tabletSizes, mobileSizes)
    /\ called' = "createSizeMapRef"
    /\ UNCHANGED <<desktopSizes, tabletSizes, mobileSizes, parseVars, runVars, mainVars>>

CallGenerateSizeMap ==
    /\ called = "args"
    /\ assembled' = generateSizeMap(<<desktopSizes, tabletSizes, mobileSizes>>, Devices)
    /\ called' = "generateSizeMap"
    /\ UNCHANGED <<desktopSizes, tabletSizes, mobileSizes, parseVars, runVars, mainVars>>

NextAsm == CallCreateSizeMap \/ CallCreateSizeMapRef \/ CallGenerateSizeMap

SpecAsm == InitAsm /\ [][NextAsm]_vars

---------------------------------------------------------------------------
(* SpecRun: one run of a variant script.  stdio records, in order, what the *)
(* run prints, the lines it reads and the closing of its interface; "json"  *)
(* stands for the console.log of JSON.stringify(jsonOutput, null, 2).       *)

Scripts == {"autoInsert.js", "notAutoInsert.js", "sizeMapRef.js"}

Ev(e) == [ev |-> e, cat |-> 0]
PromptEv(i) == [ev |-> "prompt", cat |-> i]

RunLines ==
    { <<>>,
      Str_null,
      <<"N", "U", "L", "L">>,
      <<"1", "x", "2">>,
      <<"1", "x", "2", ",", "2", "x", "1">>,
      <<"2", "x", "1", ",">>,
      <<"1", "x">>,
      <<"1", " ", "x", "2">> }

\* getValidInput's if: the diagnostic twice.
diagnosticTwice(input) ==
    IF someInvalid(input) THEN <<Ev("diagnostic"), Ev("diagnostic")>> ELSE <<>>

\* getValidInput's if: what it prints for the line read.
diagnostic(input) ==
    IF someInvalid(input) THEN <<Ev("diagnostic")>> ELSE <<>>

\* getValidInput's while: whether the prompt is repeated.
again(input) == someInvalid(input)

\* generateSizeMap of notAutoInsert.js from rl.close() on.
finishNotAutoInsert(ins) ==
    LET d == parseSizes(ins[1])
        t == parseSizes(ins[2])
        m == parseSizes(ins[3])
    IN IF /\ (d = Null \/ Len(d.items) = 0)
          /\ (t = Null \/ Len(t.items) = 0)
          /\ (m = Null \/ Len(m.items) = 0)
       THEN [printed |-> <<Ev("rl.close"), Ev("No size config needed")>>,
             json |-> EmptyObject]
       ELSE [printed |-> <<Ev("rl.close"), Ev("json")>>,
             json |-> createSizeMap(d, t, m)]

\* generateSizeMap of sizeMapRef.js from rl.close() on.
finishSizeMapRef(ins) ==
    [printed |-> <<Ev("rl.close"), Ev("json")>>,
     json |-> createSizeMapRef(parseSizes(ins[1]), parseSizes(ins[2]), parseSizes(ins[3]))]

\* processInputs of the autoInsert script from rl.close() on.
finishAutoInsert(ins) ==
    [printed |-> <<Ev("rl.close"), Ev("json")>>,
     json |-> generateSizeMap(<<parseSizes(ins[1]), parseSizes(ins[2]), parseSizes(ins[3])>>,
                              Devices)]

finish(name, ins) ==
    CASE name = "notAutoInsert.js" -> finishNotAutoInsert(ins)
      [] name = "sizeMapRef.js" -> finishSizeMapRef(ins)
      [] OTHER -> finishAutoInsert(ins)

InitRun ==
    /\ script \in Scripts
    /\ pc = "start"
    /\ prompt = 0
    /\ lastInput = <<>>
    /\ inputs = <<>>
    /\ rlOpen = TRUE
    /\ stdio = <<>>
    /\ rejects = 0
    /\ jsonOutput = EmptyObject
    /\ ParseOff /\ AsmOff /\ MainOff

\* The script's main function up to its first await: the instructions and
\* the desktop prompt.
StartRun ==
    /\ pc = "start"
    /\ stdio' = <<Ev("instructions"), PromptEv(1)>>
    /\ prompt' = 1
    /\ pc' = "asking"
    /\ UNCHANGED <<script, lastInput, inputs, rlOpen, rejects, jsonOutput>>
    /\ UNCHANGED <<parseVars, asmVars, mainVars>>

\* A line arrives and getValidInput's loop goes round: the same prompt again.
AnswerRejected(l) ==
    /\ pc = "asking"
    /\ again(l)
    /\ rejects < MaxRejects
    /\ lastInput' = l
    /\ stdio' = stdio \o <<Ev("line")>> \o diagnostic(l) \o <<PromptEv(prompt)>>
    /\ rejects' = rejects + 1
    /\ UNCHANGED <<script, pc, prompt, inputs, rlOpen, jsonOutput>>
    /\ UNCHANGED <<parseVars, asmVars, mainVars>>

\* A line arrives, getValidInput returns it and the next getValidInput asks.
AnswerAccepted(l) ==
    /\ pc = "asking"
    /\ ~again(l)
    /\ prompt < 3
    /\ lastInput' = l
    /\ inputs' = Append(inputs, l)
    /\ stdio' = stdio \o <<Ev("line")>> \o diagnostic(l) \o <<PromptEv(prompt + 1)>>
    /\ prompt' = prompt + 1
    /\ UNCHANGED <<script, pc, rlOpen, rejects, jsonOutput>>
    /\ UNCHANGED <<parseVars, asmVars, mainVars>>

\* The mobile line arrives and is returned: the interface is closed, the
\* three lines are parsed and the result is printed.
AnswerLast(l) ==
    /\ pc = "asking"
    /\ ~again(l)
    /\ prompt = 3
    /\ lastInput' = l
    /\ inputs' = Append(inputs, l)
    /\ rlOpen' = FALSE
    /\ LET out == finish(script, Append(inputs, l))
       IN /\ stdio' = stdio \o <<Ev("line")>> \o diagnostic(l) \o out.printed
          /\ jsonOutput' = out.json
    /\ pc' = "done"
    /\ UNCHANGED <<script, prompt, rejects>>
    /\ UNCHANGED <<parseVars, asmVars, mainVars>>

NextRun ==
    \/ StartRun
    \/ \E l \in RunLines : AnswerRejected(l)
    \/ \E l \in RunLines : AnswerAccepted(l)
    \/ \E l \in RunLines : AnswerLast(l)

SpecRun == InitRun /\ [][NextRun]_vars

---------------------------------------------------------------------------
(* SpecMain: the launcher.  mainLog records, in order, what the launcher    *)
(* prints, the lines it reads, the closing of its interface and the spawn.  *)

ChoiceAlphabet == {"A", "a", "E", "e", "x", " "}

ChoiceLines == UNION {[1..n -> ChoiceAlphabet] : n \in 0..MaxChoiceLen}

Log(e, a) == [ev |-> e, arg |-> a]

\* The code argument of the child's close event: a number when the child
\* exited on its own, null when a signal ended it.
Code(c) == [isNull |-> FALSE, value |-> c]
NullCode == [isNull |-> TRUE, value |-> 0]

\* process.exit(code): null is the default, success.
processExit(code) == IF code.isNull THEN 0 ELSE code.value

\* startScript up to its rl.question
startScript == <<Log("Enter A or E", ""), Log("question", "")>>

\* executeScript with the child spawned before the interface is closed.
executeScriptSpawnFirst(scriptName) == <<Log("spawn", scriptName), Log("rl.close", "")>>

\* executeScript up to the registration of the handlers
executeScript(scriptName) == <<Log("rl.close", ""), Log("spawn", scriptName)>>

choiceOf(l) == toUpperCase(trim(l))

InitMain ==
    /\ mpc = "start"
    /\ mainRl = TRUE
    /\ choiceLine = <<>>
    /\ mainLog = <<>>
    /\ invalids = 0
    /\ child = [script |-> "", state |-> "none", code |-> 0]
    /\ exitCode = 0
    /\ ParseOff /\ AsmOff /\ RunOff

MainStart ==
    /\ mpc = "start"
    /\ mainLog' = startScript
    /\ mpc' = "question"
    /\ UNCHANGED <<mainRl, choiceLine, invalids, child, exitCode>>
    /\ UNCHANGED <<parseVars, asmVars, runVars>>

\* The question's callback on "A" or "E": the child either starts or cannot
\* be started.
RecognizedChoice(l) ==
    /\ mpc = "question"
    /\ choiceOf(l) \in {<<"A">>, <<"E">>}
    /\ LET scriptName == IF choiceOf(l) = <<"A">> THEN "autoInsert.js" ELSE "notAutoInsert.js"
       IN /\ mainLog' = mainLog \o <<Log("line", ""), Log("Starting", scriptName)>>
                                \o executeScript(scriptName)
          /\ \E st \in {"running", "failed"} :
                 child' = [script |-> scriptName, state |-> st, code |-> 0]
    /\ choiceLine' = l
    /\ mainRl' = FALSE
    /\ mpc' = "spawned"
    /\ UNCHANGED <<invalids, exitCode>>
    /\ UNCHANGED <<parseVars, asmVars, runVars>>

\* The question's callback on anything else: startScript again.
InvalidChoice(l) ==
    /\ mpc = "question"
    /\ choiceOf(l) \notin {<<"A">>, <<"E">>}
    /\ invalids < MaxInvalid
    /\ mainLog' = mainLog \o <<Log("line", ""), Log("Invalid choice", "")>> \o startScript
    /\ choiceLine' = l
    /\ invalids' = invalids + 1
    /\ UNCHANGED <<mpc, mainRl, child, exitCode>>
    /\ UNCHANGED <<parseVars, asmVars, runVars>>

\* The child's close event: the child exited with code c.
ChildExited(c) ==
    /\ mpc = "spawned"
    /\ child.state = "running"
    /\ child' = [child EXCEPT !.state = "exited", !.code = c]
    /\ mainLog' = Append(mainLog, Log("exited with code", child.script))
    /\ exitCode' = processExit(Code(c))
    /\ mpc' = "exited"
    /\ UNCHANGED <<mainRl, choiceLine, invalids>>
    /\ UNCHANGED <<parseVars, asmVars, runVars>>

\* The child's close event: a signal ended the child, code is null.
ChildKilled ==
    /\ mpc = "spawned"
    /\ child.state = "running"
    /\ child' = [child EXCEPT !.state = "killed"]
    /\ mainLog' = Append(mainLog, Log("exited with code", child.script))
    /\ exitCode' = processExit(NullCode)
    /\ mpc' = "exited"
    /\ UNCHANGED <<mainRl, choiceLine, invalids>>
    /\ UNCHANGED <<parseVars, asmVars, runVars>>

\* The child's error event: the child could not be started.
ChildError ==
    /\ mpc = "spawned"
    /\ child.state = "failed"
    /\ mainLog' = Append(mainLog, Log("Failed to start script", child.script))
    /\ exitCode' = 1
    /\ mpc' = "exited"
    /\ UNCHANGED <<mainRl, choiceLine, invalids, child>>
    /\ UNCHANGED <<parseVars, asmVars, runVars>>

NextMain ==
    \/ MainStart
    \/ \E l \in ChoiceLines : RecognizedChoice(l)
    \/ \E l \in ChoiceLines : InvalidChoice(l)
    \/ \E c \in 0..MaxCode : ChildExited(c)
    \/ ChildKilled
    \/ ChildError

SpecMain == InitMain /\ [][NextMain]_vars

---------------------------------------------------------------------------
(* Claims about the validator and the parser (SpecParse) *)

\* The decimal value of a string of digits, read from its last digit.
RECURSIVE DecimalValue(_)
DecimalValue(ds) ==
    IF ds = <<>> THEN 0
    ELSE 10 * DecimalValue(SubSeq(ds, 1, Len(ds) - 1)) + DigitVal(ds[Len(ds)])

\* Every token of the comma-separated list l matches ^\d+x\d+$ once trimmed.
AllTokensMatch(l) ==
    LET tokens == split(l, ",")
    IN \A i \in 1..Len(tokens) : regexTest(trim(tokens[i]))

\* l is a comma-separated list of WidthxHeight tokens.
IsSizeList(l) ==
    LET tokens == split(l, ",")
    IN \A i \in 1..Len(tokens) : regexTest(tokens[i])

\* The (width, height) pairs the tokens of a size list spell, in input order.
PairsOf(l) ==
    LET tokens == split(l, ",")
        pairOf(tok) ==
            LET k == CHOOSE j \in 1..Len(tok) : tok[j] = "x"
            IN <<DecimalValue(SubSeq(tok, 1, k - 1)),
                 DecimalValue(SubSeq(tok, k + 1, Len(tok)))>>
    IN [i \in 1..Len(tokens) |-> pairOf(tokens[i])]

\* C1: getValidInput accepts a line if and only if the line is empty, or is
\* "null" in any casing, or is a comma-separated list whose every token,
\* trimmed, matches ^\d+x\d+$.
C1_AcceptsExactlyTheGrammar ==
    pphase \in {"validated", "parsed"} =>
        (accepted <=> (\/ line = <<>>
                       \/ toLowerCase(line) = Str_null
                       \/ AllTokensMatch(line)))

\* C2: for every line getValidInput accepts, parseSizes returns null, the
\* empty sequence, or pairs whose two components are non-negative integers.
C2_AcceptedLinesParseToNumbers ==
    (pphase = "parsed" /\ accepted) =>
        \/ sizes = Null
        \/ \A i \in 1..Len(sizes.items) :
               /\ Len(sizes.items[i]) = 2
               /\ sizes.items[i][1] # NaN /\ sizes.items[i][1] >= 0
               /\ sizes.items[i][2] # NaN /\ sizes.items[i][2] >= 0

\* C3: parseSizes returns null for "null" in any casing, the empty sequence
\* for the empty string, and for a list of WidthxHeight tokens one
\* (width, height) pair per token, in input order, duplicates kept.
C3_ParseSizesContract ==
    pphase = "parsed" =>
        /\ toLowerCase(line) = Str_null => sizes = Null
        /\ line = <<>> => sizes = Arr(<<>>)
        /\ IsSizeList(line) => sizes = Arr(PairsOf(line))

C3_Witness ==
    /\ pphase = "parsed"
    /\ line = <<"1", "x", "2", ",", "2", "x", "1">>
    /\ sizes = Arr(<< <<1, 2>>, <<2, 1>> >>)

---------------------------------------------------------------------------
(* Claims about the assemblers (SpecAsm) *)

Categories == <<desktopSizes, tabletSizes, mobileSizes>>

Contributes(r) == r = Null \/ Len(r.items) > 0

Threshold(i) == IF i = 1 THEN 992 ELSE IF i = 2 THEN 768 ELSE 0

\* C4: createSizeMap of notAutoInsert.js has an entry for a category if and
\* only if its result is null or a non-empty sequence; each entry pairs the
\* category's one-element threshold with its sequence or null; the entries
\* are in desktop, tablet, mobile order.
C4_ListOfBreakpoints ==
    called = "createSizeMap" =>
        LET sm == assembled.sizeMap
        IN /\ \A i \in 1..3 :
                  Contributes(Categories[i]) <=>
                      \E k \in 1..Len(sm) : sm[k][1] = <<Threshold(i)>>
           /\ \A k \in 1..Len(sm) :
                  \E i \in 1..3 : sm[k] = <<<<Threshold(i)>>, Categories[i]>>
           /\ \A k, l \in 1..Len(sm) : k < l => sm[k][1][1] > sm[l][1][1]

C4_Witness ==
    /\ called = "createSizeMap"
    /\ desktopSizes = Arr(<< <<1, 2>> >>)
    /\ tabletSizes = Arr(<<>>)
    /\ mobileSizes = Null
    /\ assembled = [sizeMap |-> << <<<<992>>, Arr(<< <<1, 2>> >>)>>, <<<<0>>, Null>> >>]

\* The categories that are neither null nor empty, in scan order.
Kept == SelectSeq(<<1, 2, 3>>, LAMBDA i : Categories[i] # Null /\ Len(Categories[i].items) > 0)

\* C6: generateSizeMap of the autoInsert script gives the first category that
\* is neither null nor empty as sizes and envs, every later such category, in
\* order, as an element {sizes, envs} of envExt, no envExt when there is no
\* later one, and the empty object when every category is skipped.
C6_FirstPlusExtensions ==
    called = "generateSizeMap" =>
        /\ Kept = <<>> => assembled.keys = {}
        /\ Kept # <<>> =>
               /\ {"sizes", "envs"} \subseteq assembled.keys
               /\ assembled.sizes = Categories[Kept[1]]
               /\ assembled.envs = Devices[Kept[1]]
        /\ Len(Kept) <= 1 => "envExt" \notin assembled.keys
        /\ Len(Kept) > 1 =>
               /\ assembled.keys = {"sizes", "envs", "envExt"}
               /\ assembled.envExt =
                      [j \in 1..(Len(Kept) - 1) |->
                          [sizes |-> Categories[Kept[j + 1]], envs |-> Devices[Kept[j + 1]]]]

C6_Witness ==
    /\ called = "generateSizeMap"
    /\ desktopSizes = Null
    /\ tabletSizes = Arr(<< <<1, 2>> >>)
    /\ mobileSizes = Arr(<< <<2, 1>>, <<2, 1>> >>)
    /\ assembled = [keys |-> {"sizes", "envs", "envExt"},
                    sizes |-> Arr(<< <<1, 2>> >>),
                    envs |-> "t",
                    envExt |-> <<[sizes |-> Arr(<< <<2, 1>>, <<2, 1>> >>), envs |-> "m"]>>]

---------------------------------------------------------------------------
(* Claims about a run of a variant (SpecRun) *)

IsNullLine(l) == toLowerCase(l) = Str_null

Printed(e) == \E k \in 1..Len(stdio) : stdio[k].ev = e

\* The category of the last prompt printed before event k; 0 when none was.
PromptBefore(k) ==
    LET ps == {j \in 1..(k - 1) : stdio[j].ev = "prompt"}
    IN IF ps = {} THEN 0
       ELSE stdio[CHOOSE j \in ps : \A i \in ps : i <= j].cat

\* The event after the last line read is the diagnostic.
LastLineDiagnosed ==
    LET ls == {j \in 1..Len(stdio) : stdio[j].ev = "line"}
        last == CHOOSE j \in ls : \A i \in ls : i <= j
    IN last < Len(stdio) /\ stdio[last + 1].ev = "diagnostic"

\* C5 as stated: in a run of notAutoInsert.js, a category answered "null"
\* has its entry, the threshold paired with null, in the run's output.
C5_NullAlwaysRetained ==
    (script = "notAutoInsert.js" /\ pc = "done") =>
        \A i \in 1..3 :
            IsNullLine(inputs[i]) =>
                /\ Printed("json")
                /\ \E k \in 1..Len(jsonOutput.sizeMap) :
                       jsonOutput.sizeMap[k] = <<<<Threshold(i)>>, Null>>

\* Some category's line parsed to a non-empty sequence.
SomePresent ==
    \E j \in 1..3 :
        parseSizes(inputs[j]) # Null /\ Len(parseSizes(inputs[j]).items) > 0

\* C5, amended: in a run of notAutoInsert.js in which at least one category
\* parsed to a non-empty sequence, a category answered "null" has its entry,
\* the threshold paired with null, in the run's output; when no category
\* did, the run prints "No size config needed" and no JSON.
C5_NullRetainedUnlessShortCircuit ==
    (script = "notAutoInsert.js" /\ pc = "done") =>
        /\ SomePresent =>
               /\ Printed("json") /\ ~Printed("No size config needed")
               /\ \A i \in 1..3 :
                      IsNullLine(inputs[i]) =>
                          \E k \in 1..Len(jsonOutput.sizeMap) :
                              jsonOutput.sizeMap[k] = <<<<Threshold(i)>>, Null>>
        /\ ~SomePresent =>
               Printed("No size config needed") /\ ~Printed("json")

C5_Witness ==
    /\ script = "notAutoInsert.js"
    /\ pc = "done"
    /\ inputs = << <<"1", "x", "2">>, <<>>, Str_null >>
    /\ Printed("json")
    /\ jsonOutput = [sizeMap |-> << <<<<992>>, Arr(<< <<1, 2>> >>)>>, <<<<0>>, Null>> >>]

\* C9: in a run of either variant the prompts come in desktop, tablet, mobile
\* order; a rejected line prints the diagnostic once and the same prompt
\* again; the next prompt follows only an accepted line; the final output is
\* printed at most once, after three accepted lines and the closing of the
\* interface.
C9_PromptSequence ==
    pc \in {"asking", "done"} =>
        /\ stdio[1] = Ev("instructions") /\ stdio[2] = PromptEv(1)
        /\ \A k \in 1..Len(stdio) :
               /\ stdio[k].ev = "instructions" => k = 1
               /\ stdio[k].ev = "prompt" =>
                      /\ stdio[k].cat \in 1..3
                      /\ k > 2 =>
                             \/ /\ stdio[k - 1].ev = "diagnostic"
                                /\ stdio[k].cat = PromptBefore(k)
                             \/ /\ stdio[k - 1].ev = "line"
                                /\ stdio[k].cat = PromptBefore(k) + 1
               /\ stdio[k].ev = "line" =>
                      /\ stdio[k - 1].ev = "prompt"
                      /\ k < Len(stdio)
                      /\ stdio[k + 1].ev \in {"diagnostic", "prompt", "rl.close"}
               /\ stdio[k].ev = "diagnostic" =>
                      /\ stdio[k - 1].ev = "line"
                      /\ k < Len(stdio)
                      /\ stdio[k + 1] = PromptEv(PromptBefore(k))
               /\ stdio[k].ev = "rl.close" =>
                      /\ stdio[k - 1].ev = "line"
                      /\ PromptBefore(k) = 3
               /\ stdio[k].ev \in {"json", "No size config needed"} =>
                      /\ k = Len(stdio)
                      /\ stdio[k - 1].ev = "rl.close"
                      /\ ~rlOpen
                      /\ pc = "done"
                      /\ Len(inputs) = 3
                      /\ \A i \in 1..3 : ~someInvalid(inputs[i])
        /\ Len(stdio) > 2 => (LastLineDiagnosed <=> someInvalid(lastInput))
        /\ Len(inputs) = (IF pc = "done" THEN 3 ELSE prompt - 1)
        /\ Cardinality({k \in 1..Len(stdio) : stdio[k].ev = "diagnostic"}) = rejects
        /\ pc = "done" => Printed("json") \/ Printed("No size config needed")

C9_Witness ==
    /\ script \in {"autoInsert.js", "notAutoInsert.js"}
    /\ pc = "done"
    /\ rejects = 2
    /\ stdio = <<Ev("instructions"), PromptEv(1),
                 Ev("line"), Ev("diagnostic"), PromptEv(1),
                 Ev("line"), PromptEv(2),
                 Ev("line"), Ev("diagnostic"), PromptEv(2),
                 Ev("line"), PromptEv(3),
                 Ev("line"), Ev("rl.close"), Ev("json")>>

\* C10: a run of sizeMapRef.js prints a sizeMap of exactly three entries,
\* thresholds [992], [768], [0] in that order, each with the category's
\* parsed result unchanged; no category is left out and no message stands in
\* for the JSON.
C10_RefAlwaysThreeEntries ==
    (script = "sizeMapRef.js" /\ pc = "done") =>
        /\ Printed("json") /\ ~Printed("No size config needed")
        /\ Len(jsonOutput.sizeMap) = 3
        /\ \A i \in 1..3 :
               jsonOutput.sizeMap[i] = <<<<Threshold(i)>>, parseSizes(inputs[i])>>

C10_Witness ==
    /\ script = "sizeMapRef.js"
    /\ pc = "done"
    /\ inputs = << Str_null, <<>>, <<"1", "x", "2">> >>
    /\ jsonOutput = [sizeMap |-> << <<<<992>>, Null>>,
                                    <<<<768>>, Arr(<<>>)>>,
                                    <<<<0>>, Arr(<< <<1, 2>> >>)>> >>]

---------------------------------------------------------------------------
(* Claims about the launcher (SpecMain) *)

\* C7: the launcher exits with the child's exit code when the started child
\* completes and with 1 when the child could not be started, and with no
\* code in any other case.
C7_ExitCodeMirrorsChild ==
    mpc = "exited" =>
        \/ child.state = "exited" /\ exitCode = child.code
        \/ child.state = "failed" /\ exitCode = 1

Recognized(l) == trim(l) \in {<<"A">>, <<"a">>, <<"E">>, <<"e">>}

ScriptFor(l) == IF trim(l) \in {<<"A">>, <<"a">>} THEN "autoInsert.js" ELSE "notAutoInsert.js"

\* C8: no child is started before a recognized choice is read; an
\* unrecognized choice leads to another prompt; on a recognized choice the
\* launcher closes its interface, then starts exactly one child, the script
\* of the choice, and neither prompts nor reads afterwards.
C8_LauncherHandsOverOnce ==
    mpc \in {"question", "spawned", "exited"} =>
        /\ Cardinality({k \in 1..Len(mainLog) : mainLog[k].ev = "spawn"}) <= 1
        /\ (mpc = "question") <=> (\A k \in 1..Len(mainLog) : mainLog[k].ev # "spawn")
        /\ mpc = "question" =>
               /\ mainRl
               /\ mainLog[Len(mainLog)].ev = "question"
               /\ child.state = "none"
        /\ \A k \in 1..Len(mainLog) :
               /\ mainLog[k].ev = "spawn" =>
                      /\ k > 3
                      /\ mainLog[k - 1].ev = "rl.close"
                      /\ mainLog[k - 3].ev = "line"
                      /\ ~mainRl
                      /\ Recognized(choiceLine)
                      /\ mainLog[k].arg = ScriptFor(choiceLine)
                      /\ child.script = ScriptFor(choiceLine)
                      /\ \A j \in (k + 1)..Len(mainLog) :
                             mainLog[j].ev \notin {"question", "Enter A or E", "line", "spawn"}
               /\ mainLog[k].ev = "line" =>
                      /\ mainLog[k - 1].ev = "question"
                      /\ k < Len(mainLog)
                      /\ \/ mainLog[k + 1].ev = "Starting"
                         \/ /\ mainLog[k + 1].ev = "Invalid choice"
                            /\ k + 3 <= Len(mainLog)
                            /\ mainLog[k + 3].ev = "question"
        /\ (mpc = "question" /\ Len(mainLog) > 2) => ~Recognized(choiceLine)
        /\ Cardinality({k \in 1..Len(mainLog) : mainLog[k].ev = "Invalid choice"}) = invalids

C8_Witness ==
    /\ mpc = "exited"
    /\ invalids = 2
    /\ choiceLine = <<" ", "e">>
    /\ child.script = "notAutoInsert.js"
    /\ child.state = "exited"

====
